---- MODULE Spec2Model ----
(***************************************************************************)
(* The smart-aquarium backend (api/views.py, api/models.py) as a state     *)
(* machine: three tables, a wall clock, and a bounded number of requests   *)
(* in flight.  A handler that issues several SQL statements is one action  *)
(* per statement group that other requests can interleave with; a handler  *)
(* that answers from a single query (or before its first write) is one     *)
(* action.  Floats are modelled by integers (25.0 is 25).                  *)
(***************************************************************************)
EXTENDS Integers, FiniteSets, Sequences, TLC

\* ---------------------------------------------------------------- bounds
NumProcs == 2          \* requests that can be in flight at the same time
MaxClock == 2          \* the clock runs from 1 to MaxClock
MaxRows == 2           \* rows the store holds in total, over the three tables

Procs == 1..NumProcs

\* ------------------------------------------------------- program constants
VALID_API_KEY == "your_rpi_api_key_12345"
DEFAULT_SETPOINT == 25       \* data.get('setpoint', 25.0)
FALLBACK_SETPOINT == 25      \* what api_get_setpoint reports when no row is active
None == 0              \* Python's None where a timestamp is expected (timestamps are >= 1)
DEVICE_CHOICES == {"fan", "heater"}

\* ------------------------------------------------------------ input domains
Anonymous == "anonymous"
Users == {"alice", "bob"}
Sessions == Users \cup {Anonymous}
DeviceSessions == {Anonymous, "alice"}
ApiKeys == {VALID_API_KEY, "wrong", "absent"}
Devices == {"fan", "heater", "pump"}
Actions == {"on", "off", "absent"}

\* JSON values of a request field: a number, a string, or no such key
Num(v) == [t |-> "num", v |-> v]
\* a string float() parses, such as "21.5"
NumStr(v) == [t |-> "numstr", v |-> v]
\* a string float() rejects, such as "warm"
Str == [t |-> "str", v |-> 0]
Absent == [t |-> "absent", v |-> 0]
SetpointInputs == {Num(20), Str, Absent}
TemperatureInputs == {Num(21), Num(29), NumStr(21), Str, Absent}
HumidityInputs == {Num(60), Str, Absent}

\* dict.get(key, default)
Get(x, default) == IF x.t = "absent" THEN default ELSE x
\* dict.get(key) is None
IsNone(x) == x.t = "absent"
\* (a float() that turns what it cannot parse into 0.0 instead of raising)
FloatNeverRaises(x) == FALSE
\* float(x) raises ValueError unless x is a number or a string that spells one
FloatRaises(x) == x.t \notin {"num", "numstr"}
Float(x) == x.v

\* A request: the session it carries, its api_key, whether its body is a JSON
\* object ("object") or some other JSON value ("array"), and the body's fields.
NoReq == [ep |-> "none", session |-> Anonymous, api_key |-> "absent", body |-> "object",
          device |-> "absent", action |-> "absent",
          setpoint |-> Absent, temperature |-> Absent, humidity |-> Absent]

ControlDeviceRequests ==
    {[NoReq EXCEPT !.ep = "control_device", !.session = s, !.device = d, !.action = a] :
        s \in DeviceSessions, d \in Devices, a \in Actions}
    \cup {[NoReq EXCEPT !.ep = "control_device", !.session = s, !.body = "array"] :
        s \in DeviceSessions}

UpdateSetpointRequests ==
    {[NoReq EXCEPT !.ep = "update_setpoint", !.session = s, !.setpoint = v] :
        s \in Sessions, v \in SetpointInputs}
    \cup {[NoReq EXCEPT !.ep = "update_setpoint", !.session = s, !.body = "array"] :
        s \in Sessions}

\* every pair of readings with the right key; every key with and without a
\* session; a body that is not an object with and without a session
ApiSensorDataRequests ==
    {[NoReq EXCEPT !.ep = "api_sensor_data", !.api_key = VALID_API_KEY,
                   !.temperature = t, !.humidity = h] :
        t \in TemperatureInputs, h \in HumidityInputs}
    \cup {[NoReq EXCEPT !.ep = "api_sensor_data", !.session = s, !.api_key = k,
                        !.temperature = Num(21), !.humidity = Num(60)] :
        s \in DeviceSessions, k \in ApiKeys}
    \cup {[NoReq EXCEPT !.ep = "api_sensor_data", !.session = s, !.body = "array"] :
        s \in DeviceSessions}

ReadRequests(ep) ==
    {[NoReq EXCEPT !.ep = ep, !.session = s, !.api_key = k] :
        s \in DeviceSessions, k \in ApiKeys}

\* -------------------------------------------------------------------- state
VARIABLES
    sensor,      \* SensorData rows: [id, temperature, humidity, timestamp]
    devices,     \* DeviceControl rows: [id, device, is_on, last_updated]
    setpoints,   \* TemperatureSetpoint rows:
                 \*   [id, setpoint_temperature, created_by, updated_at, is_active]
    now,         \* the value timezone.now() returns
    pc,          \* pc[p]: where request p is inside its handler ("idle": no request)
    loc,         \* loc[p]: the handler's local variables
    last         \* the response most recently sent: [ep, status, body]

vars == <<sensor, devices, setpoints, now, pc, loc, last>>
tables == <<sensor, devices, setpoints>>

NoLocals == [id |-> 0]
DeviceLabels == {"cd_create", "cd_save", "cd_respond"}
SetpointLabels == {"us_create", "us_save"}
SensorLabels == {"sd_insert"}

\* ------------------------------------------------------------------- bounds
\* The model follows the requests against one table at a time: a handler gets
\* past its checks only while the other two tables are empty and no request
\* against another table is in flight.  No handler reads one table and writes
\* another, so what is left out is the product of three independent histories.
Focused(rows, labels) ==
    /\ Cardinality(sensor) + Cardinality(devices) + Cardinality(setpoints) = Cardinality(rows)
    /\ \A q \in Procs : pc[q] \in labels \cup {"idle"}
\* A table takes one more row while it holds fewer than MaxRows.
Room(rows) == Cardinality(rows) < MaxRows
\* A new request is taken by the first idle worker.
Idle(p) == pc[p] = "idle" /\ \A q \in Procs : q < p => pc[q] # "idle"

\* ------------------------------------------------------------------ queries
\* the AutoField primary key of the next INSERT (no handler deletes a row)
NextId(rows) == Cardinality(rows) + 1

\* a mutant: save() adds the instance as a new row
UpdateInserts(rows, row) == rows \cup {[row EXCEPT !.id = NextId(rows)]}
\* Model.save() of an instance that has a primary key: UPDATE ... WHERE id = row.id
Update(rows, row) == {r \in rows : r.id # row.id} \cup {row}

\* DeviceControl.objects.filter(device=d)
DeviceFilter(rows, d) == {r \in rows : r.device = d}
\* .first() on a model without Meta.ordering orders by primary key
FirstByPk(rows) == {r \in rows : \A o \in rows : r.id <= o.id}

\* a mutant: the table has no unique constraint
NoUniqueTogether(rows, d) == FALSE
\* unique_together = ('device',): an INSERT of a second row for d raises IntegrityError
UniqueTogetherViolated(rows, d) == \E r \in rows : r.device = d

\* a mutant: the comparison is inverted
IsOnInverted(action) == action # "on"
\* device_obj.is_on = (action == 'on')
IsOn(action) == action = "on"

\* a mutant: every request passes, with or without a session
LoginNotRequired(session) == FALSE
\* @login_required: a request without an authenticated session is redirected
LoginRedirects(session) == session = Anonymous

\* a mutant: a missing key passes
MissingApiKeyPasses(key) == key = "wrong"
\* api_key = ....get('api_key', ''); if api_key != VALID_API_KEY
InvalidApiKey(key) == (IF key = "absent" THEN "" ELSE key) # VALID_API_KEY

\* TemperatureSetpoint.objects.filter(is_active=True)
ActiveSetpoints(rows) == {r \in rows : r.is_active}
\* a mutant: the ordering is ascending
OldestUpdated(rows) == {r \in rows : \A o \in rows : r.updated_at <= o.updated_at}
\* Meta.ordering = ['-updated_at'], then .first(): a row no other row is newer than
NewestUpdated(rows) == {r \in rows : \A o \in rows : r.updated_at >= o.updated_at}

\* a mutant: the ordering is ascending
OldestReading(rows) == {r \in rows : \A o \in rows : r.timestamp <= o.timestamp}
\* Meta.ordering = ['-timestamp'], then .first(): a row no other row is newer than
NewestReading(rows) == {r \in rows : \A o \in rows : r.timestamp >= o.timestamp}

\* ------------------------------------------------------------------ helpers
\* The handler returns: the response is sent and the request is over.
Respond(p, ep, status, body) ==
    /\ last' = [ep |-> ep, status |-> status, body |-> body]
    /\ pc' = [pc EXCEPT ![p] = "idle"]
    /\ loc' = [loc EXCEPT ![p] = NoLocals]

\* The handler goes on to its next statement with local variables l.
Goto(p, label, l) ==
    /\ pc' = [pc EXCEPT ![p] = label]
    /\ loc' = [loc EXCEPT ![p] = l]
    /\ UNCHANGED last

RedirectToLogin == [location |-> "login"]
Failure(e) == [success |-> FALSE, error |-> e]
Error(e) == [error |-> e]

Init ==
    /\ sensor = {}
    /\ devices = {}
    /\ setpoints = {}
    /\ now = 1
    /\ pc = [p \in Procs |-> "idle"]
    /\ loc = [p \in Procs |-> NoLocals]
    /\ last = [ep |-> "none", status |-> 0, body |-> Error("")]

\* Time passes.
Tick ==
    /\ now < MaxClock
    /\ now' = now + 1
    /\ UNCHANGED <<sensor, devices, setpoints, pc, loc, last>>

\* ------------------------------------------------------------ control_device
\* The decorators, the parse, the device check and the SELECT of get_or_create.
ControlDeviceGet(p, r) ==
    /\ Idle(p)
    /\ r \in ControlDeviceRequests
    /\ UNCHANGED <<sensor, devices, setpoints, now>>
    /\ IF LoginRedirects(r.session) THEN Respond(p, r.ep, 302, RedirectToLogin)
       ELSE IF r.body # "object" THEN Respond(p, r.ep, 400, Failure("AttributeError"))
       ELSE IF r.device \notin DEVICE_CHOICES
       THEN Respond(p, r.ep, 400, Failure("Invalid device"))
       ELSE LET found == DeviceFilter(devices, r.device)
                l == [device |-> r.device, action |-> r.action, id |-> 0] IN
            /\ Focused(devices, DeviceLabels)
            /\ IF Cardinality(found) > 1
               THEN Respond(p, r.ep, 400, Failure("MultipleObjectsReturned"))
               ELSE IF found = {} THEN Goto(p, "cd_create", l)
               ELSE \E row \in found : Goto(p, "cd_save", [l EXCEPT !.id = row.id])

\* The INSERT of get_or_create (defaults: is_on=False); on IntegrityError the
\* row is fetched instead.
ControlDeviceCreate(p) ==
    /\ pc[p] = "cd_create"
    /\ UNCHANGED <<sensor, setpoints, now>>
    /\ IF UniqueTogetherViolated(devices, loc[p].device)
       THEN /\ UNCHANGED devices
            /\ \E row \in DeviceFilter(devices, loc[p].device) :
                    Goto(p, "cd_save", [loc[p] EXCEPT !.id = row.id])
       ELSE LET row == [id |-> NextId(devices), device |-> loc[p].device,
                        is_on |-> FALSE, last_updated |-> now] IN
            /\ Room(devices)
            /\ devices' = devices \cup {row}
            /\ Goto(p, "cd_save", [loc[p] EXCEPT !.id = row.id])

\* (a save() that writes the time only: save(update_fields=['last_updated']))
ControlDeviceSaveKeepsIsOn(p) ==
    /\ pc[p] = "cd_save"
    /\ UNCHANGED <<sensor, setpoints, now, last>>
    /\ devices' = {IF row.id = loc[p].id THEN [row EXCEPT !.last_updated = now] ELSE row :
                       row \in devices}
    /\ Goto(p, "cd_respond", [device |-> loc[p].device, action |-> loc[p].action,
                              id |-> loc[p].id, is_on |-> IsOn(loc[p].action)])

\* device_obj.is_on = (action == 'on'); device_obj.save().  The instance in
\* memory is the row fetched by its device, so save() writes that device, the
\* new is_on and the time (auto_now) to the row with its id, and the write is
\* committed when save() returns.
ControlDeviceSave(p) ==
    /\ pc[p] = "cd_save"
    /\ UNCHANGED <<sensor, setpoints, now, last>>
    /\ LET row == [id |-> loc[p].id, device |-> loc[p].device,
                   is_on |-> IsOn(loc[p].action), last_updated |-> now] IN
       /\ devices' = Update(devices, row)
       /\ Goto(p, "cd_respond", [device |-> row.device, action |-> loc[p].action,
                                 id |-> row.id, is_on |-> row.is_on])

\* The response is built from the instance in memory; action.upper() raises
\* AttributeError when action is None.
ControlDeviceRespond(p) ==
    /\ pc[p] = "cd_respond"
    /\ UNCHANGED <<sensor, devices, setpoints, now>>
    /\ IF loc[p].action = "absent"
       THEN Respond(p, "control_device", 400, Failure("AttributeError"))
       ELSE Respond(p, "control_device", 200,
                    [success |-> TRUE, device |-> loc[p].device, status |-> loc[p].is_on])

\* ----------------------------------------------------- api_get_device_status
\* DeviceControl.objects.filter(device=d).first() and the two fields reported
DeviceStatus(rows, d) ==
    LET found == FirstByPk(DeviceFilter(rows, d)) IN
    IF found = {} THEN {[is_on |-> FALSE, last_updated |-> None]}
    ELSE {[is_on |-> row.is_on, last_updated |-> row.last_updated] : row \in found}

ApiGetDeviceStatus(p, r) ==
    /\ Idle(p)
    /\ r \in ReadRequests("api_get_device_status")
    /\ UNCHANGED <<sensor, devices, setpoints, now>>
    /\ IF InvalidApiKey(r.api_key) THEN Respond(p, r.ep, 401, Error("Invalid API key"))
       ELSE \E f \in DeviceStatus(devices, "fan"), h \in DeviceStatus(devices, "heater") :
                Respond(p, r.ep, 200, [fan |-> f, heater |-> h])

\* ----------------------------------------------------------- update_setpoint
\* The decorators, the parse, float() and the SELECT of get_or_create.
UpdateSetpointGet(p, r) ==
    /\ Idle(p)
    /\ r \in UpdateSetpointRequests
    /\ UNCHANGED <<sensor, devices, setpoints, now>>
    /\ IF LoginRedirects(r.session) THEN Respond(p, r.ep, 302, RedirectToLogin)
       ELSE IF r.body # "object" THEN Respond(p, r.ep, 400, Failure("AttributeError"))
       ELSE IF FloatRaises(Get(r.setpoint, Num(DEFAULT_SETPOINT)))
       THEN Respond(p, r.ep, 400, Failure("ValueError"))
       ELSE LET found == ActiveSetpoints(setpoints)
                l == [new_setpoint |-> Float(Get(r.setpoint, Num(DEFAULT_SETPOINT))),
                      user |-> r.session, id |-> 0] IN
            /\ Focused(setpoints, SetpointLabels)
            /\ IF Cardinality(found) > 1
               THEN Respond(p, r.ep, 400, Failure("MultipleObjectsReturned"))
               ELSE IF found = {} THEN Goto(p, "us_create", l)
               ELSE \E row \in found : Goto(p, "us_save", [l EXCEPT !.id = row.id])

\* The INSERT of get_or_create: is_active=True and the defaults; no constraint
\* of the table can refuse it.
UpdateSetpointCreate(p) ==
    /\ pc[p] = "us_create"
    /\ UNCHANGED <<sensor, devices, now>>
    /\ LET row == [id |-> NextId(setpoints), setpoint_temperature |-> loc[p].new_setpoint,
                   created_by |-> loc[p].user, updated_at |-> now, is_active |-> TRUE] IN
       /\ Room(setpoints)
       /\ setpoints' = setpoints \cup {row}
       /\ Goto(p, "us_save", [loc[p] EXCEPT !.id = row.id])

\* setpoint.setpoint_temperature = ...; setpoint.created_by = ...; setpoint.save().
\* The instance in memory was fetched by is_active=True, so save() writes the
\* new temperature and owner, is_active=True and the time (auto_now).
UpdateSetpointSave(p) ==
    /\ pc[p] = "us_save"
    /\ UNCHANGED <<sensor, devices, now>>
    /\ LET row == [id |-> loc[p].id, setpoint_temperature |-> loc[p].new_setpoint,
                   created_by |-> loc[p].user, updated_at |-> now, is_active |-> TRUE] IN
       /\ setpoints' = Update(setpoints, row)
       /\ Respond(p, "update_setpoint", 200,
                  [success |-> TRUE, setpoint |-> loc[p].new_setpoint])

\* ---------------------------------------------------------- api_get_setpoint
\* (a variant that stores the default as a new active row when none is active)
ApiGetSetpointPersists(p, r) ==
    /\ Idle(p)
    /\ r \in ReadRequests("api_get_setpoint")
    /\ UNCHANGED <<sensor, devices, now>>
    /\ IF InvalidApiKey(r.api_key)
       THEN UNCHANGED setpoints /\ Respond(p, r.ep, 401, Error("Invalid API key"))
       ELSE LET found == NewestUpdated(ActiveSetpoints(setpoints))
                row == [id |-> NextId(setpoints), setpoint_temperature |-> FALLBACK_SETPOINT,
                        created_by |-> Anonymous, updated_at |-> now, is_active |-> TRUE] IN
            /\ setpoints' = IF found = {} THEN setpoints \cup {row} ELSE setpoints
            /\ \E shown \in IF found = {} THEN {row} ELSE found :
                    Respond(p, r.ep, 200, [setpoint_temperature |-> shown.setpoint_temperature,
                                           updated_at |-> shown.updated_at])

ApiGetSetpoint(p, r) ==
    /\ Idle(p)
    /\ r \in ReadRequests("api_get_setpoint")
    /\ UNCHANGED <<sensor, devices, setpoints, now>>
    /\ IF InvalidApiKey(r.api_key) THEN Respond(p, r.ep, 401, Error("Invalid API key"))
       ELSE LET found == NewestUpdated(ActiveSetpoints(setpoints)) IN
            IF found = {}
            THEN Respond(p, r.ep, 200, [setpoint_temperature |-> FALLBACK_SETPOINT,
                                        updated_at |-> None])
            ELSE \E row \in found :
                    Respond(p, r.ep, 200, [setpoint_temperature |-> row.setpoint_temperature,
                                           updated_at |-> row.updated_at])

\* ----------------------------------------------------------- api_sensor_data
\* Everything up to the INSERT statement: request.data.get (AttributeError when
\* the body is no object), the key, the None checks, float(), and the timestamp
\* auto_now_add takes from the clock while the INSERT is being prepared.
ApiSensorDataValidate(p, r) ==
    /\ Idle(p)
    /\ r \in ApiSensorDataRequests
    /\ UNCHANGED <<sensor, devices, setpoints, now>>
    /\ IF r.body # "object" THEN Respond(p, r.ep, 400, Error("AttributeError"))
       ELSE IF InvalidApiKey(r.api_key) THEN Respond(p, r.ep, 401, Error("Invalid API key"))
       ELSE IF IsNone(r.temperature) \/ IsNone(r.humidity)
       THEN Respond(p, r.ep, 400, Error("Missing temperature or humidity"))
       ELSE IF FloatRaises(r.temperature) \/ FloatRaises(r.humidity)
       THEN Respond(p, r.ep, 400, Error("ValueError"))
       ELSE /\ Focused(sensor, SensorLabels)
            /\ Goto(p, "sd_insert",
                    [id |-> 0, temperature |-> Float(r.temperature),
                     humidity |-> Float(r.humidity), timestamp |-> now])

\* The INSERT statement runs and the 201 response is built from the instance.
ApiSensorDataInsert(p) ==
    /\ pc[p] = "sd_insert"
    /\ UNCHANGED <<devices, setpoints, now>>
    /\ Room(sensor)
    /\ LET row == [loc[p] EXCEPT !.id = NextId(sensor)] IN
       /\ sensor' = sensor \cup {row}
       /\ Respond(p, "api_sensor_data", 201,
                  [success |-> TRUE, data_id |-> row.id, timestamp |-> row.timestamp])

\* ---------------------------------------------------- api_latest_sensor_data
ApiLatestSensorData(p, r) ==
    /\ Idle(p)
    /\ r \in ReadRequests("api_latest_sensor_data")
    /\ UNCHANGED <<sensor, devices, setpoints, now>>
    /\ IF InvalidApiKey(r.api_key) THEN Respond(p, r.ep, 401, Error("Invalid API key"))
       ELSE LET found == NewestReading(sensor) IN
            IF found = {} THEN Respond(p, r.ep, 404, Error("No sensor data available"))
            ELSE \E row \in found :
                    Respond(p, r.ep, 200, [temperature |-> row.temperature,
                                           humidity |-> row.humidity,
                                           timestamp |-> row.timestamp])

\* --------------------------------------------------------------------- next
StepControl(p) ==
    \/ \E r \in ControlDeviceRequests : ControlDeviceGet(p, r)
    \/ ControlDeviceCreate(p)
    \/ ControlDeviceSave(p)
    \/ ControlDeviceRespond(p)

StepDevice(p) ==
    \/ StepControl(p)
    \/ \E r \in ReadRequests("api_get_device_status") : ApiGetDeviceStatus(p, r)

StepSetpoint(p) ==
    \/ \E r \in UpdateSetpointRequests : UpdateSetpointGet(p, r)
    \/ UpdateSetpointCreate(p)
    \/ UpdateSetpointSave(p)
    \/ \E r \in ReadRequests("api_get_setpoint") : ApiGetSetpoint(p, r)

StepSensor(p) ==
    \/ \E r \in ApiSensorDataRequests : ApiSensorDataValidate(p, r)
    \/ ApiSensorDataInsert(p)
    \/ \E r \in ReadRequests("api_latest_sensor_data") : ApiLatestSensorData(p, r)

Step(p) == StepDevice(p) \/ StepSetpoint(p) \/ StepSensor(p)

\* Every endpoint, requests interleaving statement by statement.
Next == Tick \/ \E p \in Procs : Step(p)
Spec == Init /\ [][Next]_vars

\* Every endpoint, one request at a time: a request starts when none is in flight.
Alone(p) == \A q \in Procs \ {p} : pc[q] = "idle"
SeqStep(p) ==
    \/ Alone(p) /\ \E r \in ControlDeviceRequests : ControlDeviceGet(p, r)
    \/ Alone(p) /\ ControlDeviceCreate(p)
    \/ Alone(p) /\ ControlDeviceSave(p)
    \/ Alone(p) /\ ControlDeviceRespond(p)
    \/ Alone(p) /\ \E r \in ReadRequests("api_get_device_status") : ApiGetDeviceStatus(p, r)
    \/ Alone(p) /\ \E r \in UpdateSetpointRequests : UpdateSetpointGet(p, r)
    \/ Alone(p) /\ UpdateSetpointCreate(p)
    \/ Alone(p) /\ UpdateSetpointSave(p)
    \/ Alone(p) /\ \E r \in ReadRequests("api_get_setpoint") : ApiGetSetpoint(p, r)
    \/ Alone(p) /\ \E r \in ApiSensorDataRequests : ApiSensorDataValidate(p, r)
    \/ Alone(p) /\ ApiSensorDataInsert(p)
    \/ Alone(p) /\ \E r \in ReadRequests("api_latest_sensor_data") : ApiLatestSensorData(p, r)
SeqNext == Tick \/ \E p \in Procs : SeqStep(p)
SeqSpec == Init /\ [][SeqNext]_vars

\* The endpoints of one table, requests interleaving statement by statement.
NextDevice == Tick \/ \E p \in Procs : StepDevice(p)
SpecDevice == Init /\ [][NextDevice]_vars
\* control_device alone, requests interleaving statement by statement.
NextControl == Tick \/ \E p \in Procs : StepControl(p)
SpecControl == Init /\ [][NextControl]_vars
\* control_device alone, every request from a logged-in user for the fan or the
\* heater with action 'on' or 'off'.
SwitchRequests ==
    {r \in ControlDeviceRequests :
        /\ r.session # Anonymous /\ r.body = "object"
        /\ r.device \in DEVICE_CHOICES /\ r.action \in {"on", "off"}}
StepSwitch(p) ==
    \/ \E r \in SwitchRequests : ControlDeviceGet(p, r)
    \/ ControlDeviceCreate(p)
    \/ ControlDeviceSave(p)
    \/ ControlDeviceRespond(p)
NextSwitch == Tick \/ \E p \in Procs : StepSwitch(p)
SpecSwitch == Init /\ [][NextSwitch]_vars
NextSetpoint == Tick \/ \E p \in Procs : StepSetpoint(p)
SpecSetpoint == Init /\ [][NextSetpoint]_vars
NextSensor == Tick \/ \E p \in Procs : StepSensor(p)
SpecSensor == Init /\ [][NextSensor]_vars

\* ================================================================== claims

\* primary keys of a table
Ids(rows) == {r.id : r \in rows}

\* C1: in every reachable state, whatever the interleaving of control_device
\* requests, the DeviceControl table holds at most one row for 'fan' and at
\* most one row for 'heater'.
C1_OneRowPerDevice ==
    \A d \in DEVICE_CHOICES : Cardinality(DeviceFilter(devices, d)) <= 1

\* Two first-time requests for the same device raced: both found no row, one
\* inserted it, the INSERT of the other was refused, and both hold the one row.
C1_Witness ==
    \E p, q \in Procs :
        /\ p # q /\ pc[p] = "cd_save" /\ pc[q] = "cd_save"
        /\ loc[p].device = loc[q].device /\ loc[p].id = loc[q].id
        /\ Cardinality(DeviceFilter(devices, loc[q].device)) = 1

\* C2: starting with no active row, whatever the interleaving of update_setpoint
\* requests, at most one TemperatureSetpoint row has is_active=true.
C2_AtMostOneActive == Cardinality(ActiveSetpoints(setpoints)) <= 1

\* C3: with update_setpoint requests running one after another from an empty
\* table, a request that is answered leaves exactly one active row, holding its
\* temperature and its user; a request that finds an active row keeps the set of
\* primary keys (the same row, no row more); and an api_get_setpoint that
\* follows a successful update reports the temperature of that update.
C3_Sequential ==
    [][\A p \in Procs :
        /\ UpdateSetpointSave(p) =>
              /\ \E row \in setpoints' :
                    /\ ActiveSetpoints(setpoints') = {row}
                    /\ row.setpoint_temperature = loc[p].new_setpoint
                    /\ row.created_by = loc[p].user
                    /\ last'.status = 200
                    /\ last'.body.setpoint = loc[p].new_setpoint
              /\ Ids(setpoints') = Ids(setpoints)
        /\ (UpdateSetpointCreate(p) \/ \E r \in UpdateSetpointRequests : UpdateSetpointGet(p, r)) =>
              (ActiveSetpoints(setpoints) # {} => setpoints' = setpoints)
        /\ UpdateSetpointCreate(p) => Cardinality(setpoints') = 1
        /\ \A r \in ReadRequests("api_get_setpoint") :
              (/\ ApiGetSetpoint(p, r)
               /\ r.api_key = VALID_API_KEY
               /\ last.ep = "update_setpoint" /\ last.status = 200) =>
                    /\ last'.status = 200
                    /\ last'.body.setpoint_temperature = last.body.setpoint
      ]_vars

\* api_get_setpoint has reported the temperature that the last update_setpoint,
\* sent by the second user without a 'setpoint' field, stored in row 1, the one
\* active row.
C3_Witness ==
    /\ last.ep = "api_get_setpoint" /\ last.status = 200
    /\ last.body.setpoint_temperature = DEFAULT_SETPOINT
    /\ last.body.updated_at # None
    /\ \E row \in setpoints :
          /\ setpoints = {row} /\ row.id = 1 /\ row.created_by = "bob"
          /\ row.setpoint_temperature = DEFAULT_SETPOINT

\* C4: a request to one of the four device endpoints whose api_key is not the
\* configured secret (a missing key included) is answered 401 'Invalid API key'
\* whatever else it contains, and changes no table.
C4_InvalidKeyIs401 ==
    [][\A p \in Procs :
        \A r \in ApiSensorDataRequests \cup ReadRequests("api_get_setpoint")
                 \cup ReadRequests("api_get_device_status")
                 \cup ReadRequests("api_latest_sensor_data") :
            (/\ r.api_key # VALID_API_KEY
             /\ \/ ApiSensorDataValidate(p, r)
                \/ ApiGetSetpoint(p, r)
                \/ ApiGetDeviceStatus(p, r)
                \/ ApiLatestSensorData(p, r)) =>
                /\ last'.status = 401
                /\ last'.body = Error("Invalid API key")
                /\ UNCHANGED tables
      ]_vars

\* What C5 and its amendment share: a request with the right key and numeric
\* temperature and humidity goes on to the INSERT; the INSERT adds exactly one
\* row, holding the two values, and changes no other; the answer is 201 with
\* that row's id and a timestamp.
C5_OneRowAdded(p) ==
    /\ Idle(p) => \A r \in ApiSensorDataRequests :
          (/\ r.body = "object" /\ r.api_key = VALID_API_KEY
           /\ r.temperature.t = "num" /\ r.humidity.t = "num"
           /\ ApiSensorDataValidate(p, r)) =>
                /\ pc'[p] = "sd_insert"
                /\ loc'[p].temperature = r.temperature.v
                /\ loc'[p].humidity = r.humidity.v
    /\ ApiSensorDataInsert(p) =>
          /\ sensor \subseteq sensor'
          /\ Cardinality(sensor') = Cardinality(sensor) + 1
          /\ last'.status = 201
          /\ last'.body.timestamp # None
          /\ \E row \in sensor' \ sensor :
                /\ row.id = last'.body.data_id
                /\ row.timestamp = last'.body.timestamp
                /\ row.temperature = loc[p].temperature
                /\ row.humidity = loc[p].humidity

\* C5 as stated: ... and an api_latest_sensor_data request made right after the
\* 201 reports the temperature and humidity of the row just written.
C5_LatestIsRowJustWritten ==
    [][\A p \in Procs :
        /\ C5_OneRowAdded(p)
        /\ (last.ep = "api_sensor_data" /\ last.status = 201) =>
            \A r \in ReadRequests("api_latest_sensor_data") :
              (r.api_key = VALID_API_KEY /\ ApiLatestSensorData(p, r)) =>
                    /\ last'.status = 200
                    /\ \E row \in sensor :
                          /\ row.id = last.body.data_id
                          /\ last'.body.temperature = row.temperature
                          /\ last'.body.humidity = row.humidity
      ]_vars

\* C5 as amended: ... and an api_latest_sensor_data request made right after the
\* 201 reports a row whose timestamp no row exceeds, which is the row just
\* written whenever its timestamp is greater than that of every other row.
C5_LatestIsNewestRow ==
    [][\A p \in Procs :
        /\ C5_OneRowAdded(p)
        /\ (last.ep = "api_sensor_data" /\ last.status = 201) =>
            \A r \in ReadRequests("api_latest_sensor_data") :
              (r.api_key = VALID_API_KEY /\ ApiLatestSensorData(p, r)) =>
                    /\ last'.status = 200
                    /\ \E row \in sensor :
                          /\ last'.body.temperature = row.temperature
                          /\ last'.body.humidity = row.humidity
                          /\ last'.body.timestamp = row.timestamp
                          /\ \A o \in sensor : o.timestamp <= row.timestamp
                    /\ \A row \in sensor :
                          (/\ row.id = last.body.data_id
                           /\ \A o \in sensor \ {row} : o.timestamp < row.timestamp) =>
                                /\ last'.body.temperature = row.temperature
                                /\ last'.body.humidity = row.humidity
      ]_vars

\* Two readings with different temperatures are stored, the second with the
\* greater timestamp, and api_latest_sensor_data has reported the second.
C5_Witness ==
    /\ last.ep = "api_latest_sensor_data" /\ last.status = 200
    /\ \E old, new \in sensor :
          /\ sensor = {old, new}
          /\ old.id = 1 /\ new.id = 2
          /\ old.timestamp < new.timestamp
          /\ old.temperature # new.temperature
          /\ last.body.temperature = new.temperature
          /\ last.body.timestamp = new.timestamp

\* C6: with one request handled at a time, a control_device(device, action)
\* answered 200 with action 'on' or 'off' leaves that device's row with
\* is_on = (action = 'on') and the other device's reported state as it was;
\* api_get_device_status right after it reports the value echoed in the 200;
\* a request for a device that already has a row reuses that row and no step
\* of it changes the set of rows.
C6_StatusFollowsAction ==
    [][\A p \in Procs :
        /\ (ControlDeviceRespond(p) /\ loc[p].action \in {"on", "off"}) =>
              /\ last'.status = 200
              /\ last'.body.device = loc[p].device
              /\ last'.body.status = (loc[p].action = "on")
              /\ devices' = devices
        /\ (ControlDeviceSave(p) /\ loc[p].action \in {"on", "off"}) =>
              /\ \A s \in DeviceStatus(devices', loc[p].device) :
                    s.is_on = (loc[p].action = "on")
              /\ \A d \in DEVICE_CHOICES \ {loc[p].device} :
                    DeviceStatus(devices', d) = DeviceStatus(devices, d)
              /\ Ids(devices') = Ids(devices)
              /\ Cardinality(devices') = Cardinality(devices)
        /\ \A r \in ControlDeviceRequests :
              ControlDeviceGet(p, r) =>
                  /\ devices' = devices
                  /\ (pc'[p] # "idle" /\ DeviceFilter(devices, r.device) # {}) =>
                        /\ pc'[p] = "cd_save"
                        /\ \E row \in DeviceFilter(devices, r.device) : loc'[p].id = row.id
        /\ ControlDeviceCreate(p) =>
              /\ DeviceFilter(devices, loc[p].device) = {}
              /\ \A d \in DEVICE_CHOICES \ {loc[p].device} :
                    DeviceStatus(devices', d) = DeviceStatus(devices, d)
        /\ \A r \in ReadRequests("api_get_device_status") :
              (/\ ApiGetDeviceStatus(p, r)
               /\ r.api_key = VALID_API_KEY
               /\ last.ep = "control_device" /\ last.status = 200) =>
                    /\ last'.status = 200
                    /\ last'.body[last.body.device].is_on = last.body.status
      ]_vars

\* The fan has been switched on, the heater has been switched off after the
\* clock moved on from its row's creation, each on its own row, and
\* api_get_device_status has reported exactly that.
C6_Witness ==
    /\ last.ep = "api_get_device_status" /\ last.status = 200
    /\ last.body.fan.is_on = TRUE /\ last.body.heater.is_on = FALSE
    /\ \E f, h \in devices :
          /\ devices = {f, h}
          /\ f.device = "fan" /\ f.is_on = TRUE
          /\ h.device = "heater" /\ h.is_on = FALSE /\ h.id = 1
          /\ h.last_updated = MaxClock
          /\ last.body.heater.last_updated = h.last_updated

\* C7: api_get_setpoint, api_get_device_status and api_latest_sensor_data leave
\* all three tables unchanged; with no active setpoint row api_get_setpoint
\* answers 25.0 with updated_at null, and for a device without a row
\* api_get_device_status answers is_on false with last_updated null.
C7_ReadsChangeNothing ==
    [][\A p \in Procs :
        /\ \A r \in ReadRequests("api_get_setpoint") :
              ApiGetSetpoint(p, r) =>
                  /\ UNCHANGED tables
                  /\ (r.api_key = VALID_API_KEY /\ ActiveSetpoints(setpoints) = {}) =>
                        /\ last'.status = 200
                        /\ last'.body.setpoint_temperature = 25
                        /\ last'.body.updated_at = None
        /\ \A r \in ReadRequests("api_get_device_status") :
              ApiGetDeviceStatus(p, r) =>
                  /\ UNCHANGED tables
                  /\ \A d \in DEVICE_CHOICES :
                        (r.api_key = VALID_API_KEY /\ DeviceFilter(devices, d) = {}) =>
                            /\ last'.status = 200
                            /\ last'.body[d].is_on = FALSE
                            /\ last'.body[d].last_updated = None
        /\ \A r \in ReadRequests("api_latest_sensor_data") :
              ApiLatestSensorData(p, r) => UNCHANGED tables
      ]_vars

\* api_get_setpoint has answered the default: the setpoint table is empty,
\* also after the answer, while devices have rows.
C7_Witness ==
    /\ last.ep = "api_get_setpoint" /\ last.status = 200
    /\ last.body.setpoint_temperature = 25 /\ last.body.updated_at = None
    /\ setpoints = {} /\ devices # {}

\* C8: an api_sensor_data request with the correct key whose temperature or
\* humidity is missing or is not numeric (also when the temperature is numeric
\* and only the humidity is not) is answered 400 at once and the SensorData
\* table is left as it was.
C8_BadReadingRejected ==
    [][\A p \in Procs : Idle(p) => \A r \in ApiSensorDataRequests :
        (/\ r.body = "object" /\ r.api_key = VALID_API_KEY
         /\ r.temperature.t \in {"absent", "str"} \/ r.humidity.t \in {"absent", "str"}
         /\ ApiSensorDataValidate(p, r)) =>
              /\ last'.ep = "api_sensor_data"
              /\ last'.status = 400
              /\ pc'[p] = "idle"
              /\ sensor' = sensor
      ]_vars

\* A reading is stored and a later request has been rejected because float()
\* raised; the stored reading is all the table holds.
C8_Witness ==
    /\ last.ep = "api_sensor_data" /\ last.status = 400
    /\ last.body = Error("ValueError")
    /\ \A p \in Procs : pc[p] = "idle"
    /\ \E row \in sensor : sensor = {row} /\ row.temperature = 21

\* the columns of DeviceControl and TemperatureSetpoint other than the
\* automatic timestamps
C9_Columns ==
    <<{[id |-> row.id, device |-> row.device, is_on |-> row.is_on] : row \in devices},
      {[id |-> row.id, setpoint_temperature |-> row.setpoint_temperature,
        created_by |-> row.created_by, is_active |-> row.is_active] : row \in setpoints}>>

\* C9: an authenticated control_device or update_setpoint request that is
\* answered 400 leaves DeviceControl and TemperatureSetpoint as they were: the
\* step that answers 400 creates no row and changes no is_on, temperature or
\* owner, and no earlier step of a request without 'action' (which is bound to
\* be answered 400) does.
C9_FailureChangesNothing ==
    [][\A p \in Procs :
        /\ (/\ \/ \E r \in ControlDeviceRequests : ControlDeviceGet(p, r)
               \/ ControlDeviceCreate(p)
               \/ ControlDeviceSave(p)
               \/ ControlDeviceRespond(p)
               \/ \E r \in UpdateSetpointRequests : UpdateSetpointGet(p, r)
               \/ UpdateSetpointCreate(p)
               \/ UpdateSetpointSave(p)
            /\ last'.status = 400 /\ pc'[p] = "idle") => C9_Columns' = C9_Columns
        /\ (/\ ControlDeviceCreate(p) \/ ControlDeviceSave(p)
            /\ loc[p].action = "absent") => C9_Columns' = C9_Columns
      ]_vars

C11_FirstMatchUpdated ==
    [][\A p \in Procs :
        /\ (Idle(p) /\ Cardinality(ActiveSetpoints(setpoints)) >= 2) =>
              \A r \in UpdateSetpointRequests :
                  (/\ r.session # Anonymous /\ r.body = "object" /\ r.setpoint.t = "num"
                   /\ UpdateSetpointGet(p, r)) =>
                        /\ pc'[p] = "us_save"
                        /\ loc'[p].new_setpoint = r.setpoint.v
                        /\ \E row \in NewestUpdated(ActiveSetpoints(setpoints)) :
                              loc'[p].id = row.id
        /\ UpdateSetpointSave(p) =>
              /\ last'.status = 200
              /\ \A o \in setpoints : o.id # loc[p].id => o \in setpoints'
      ]_vars

\* What C12 and its amendment share: a save writes is_on = (action = 'on') to
\* the row of its device and changes no other row, the value it wrote is the
\* one the instance in memory holds, and no step other than a save changes or
\* removes a row; so once the requests have finished, the stored is_on is the
\* value written by the save that came last.
C12_LastSaveWins ==
    /\ \A p \in Procs :
          ControlDeviceSave(p) =>
              /\ \E row \in devices' :
                    /\ row.id = loc[p].id /\ row.device = loc[p].device
                    /\ row.is_on = (loc[p].action = "on")
                    /\ loc'[p].is_on = row.is_on
              /\ \A o \in devices : o.id # loc[p].id => o \in devices'
              /\ Ids(devices') = Ids(devices)
    /\ (\A p \in Procs : ~ControlDeviceSave(p)) => devices \subseteq devices'

\* C12 as stated: the status echoed by a successful control_device response is
\* the is_on stored in the device's row when the response is produced, also
\* when requests interleave; and the last save decides the stored is_on.
C12_EchoIsStored ==
    [][/\ C12_LastSaveWins
       /\ \A p \in Procs :
            (ControlDeviceRespond(p) /\ last'.status = 200) =>
                \A row \in DeviceFilter(devices', loc[p].device) :
                    last'.body.status = row.is_on
      ]_vars

\* C12 as amended: the status echoed by a successful control_device response
\* is the is_on that request's own save wrote to the device's row; and the last
\* save decides the stored is_on.
C12_EchoIsWritten ==
    [][/\ C12_LastSaveWins
       /\ \A p \in Procs :
            (ControlDeviceRespond(p) /\ last'.status = 200) =>
                /\ last'.body.device = loc[p].device
                /\ last'.body.status = loc[p].is_on
                /\ last'.body.status = (loc[p].action = "on")
                /\ devices' = devices
      ]_vars

\* Two requests for the fan have finished; the one answered last echoed 'on'
\* while the row holds 'off', written by the other request's later save.
C12_Witness ==
    /\ \A p \in Procs : pc[p] = "idle"
    /\ last.ep = "control_device" /\ last.status = 200
    /\ last.body.device = "fan" /\ last.body.status = TRUE
    /\ \E row \in devices : devices = {row} /\ row.device = "fan" /\ row.is_on = FALSE
====
